---- MODULE Spec2Model ----
(***************************************************************************)
(* A model of the data_utils and visualization modules of h501-gutenberg.  *)
(*                                                                         *)
(* A table (pandas DataFrame) is a record                                  *)
(*     [columns : set of column names,                                     *)
(*      index   : sequence of row labels,                                  *)
(*      rows    : sequence of functions columns -> cell]                   *)
(* A cell is a number or NA (a missing value, pandas NaN).                 *)
(*                                                                         *)
(* A call ends in Return(v) or in Raise(kind, msg).                        *)
(*                                                                         *)
(* Two specifications:                                                     *)
(*   Spec      the functions of data_utils applied once to a table drawn   *)
(*             from Tables (every table of at most MaxRows rows);          *)
(*   SpecProc  any sequence of calls to both modules, with the state of    *)
(*             the process around them: numpy's global random generator,   *)
(*             seaborn/matplotlib's global style and pyplot's figures.     *)
(***************************************************************************)
EXTENDS Integers, Sequences, FiniteSets, TLC

VARIABLES
    df,        \* the table the caller holds
    call,      \* the last call: its name, its inputs and its outcome
    rng,       \* numpy's global random generator state
    style,     \* seaborn's style and matplotlib's rcParams['figure.figsize']
    figs,      \* number of figures in pyplot's registry
    pre,       \* rng, style and figs as they were before the last call
    samples    \* n_rows -> what create_sample_data(n_rows) has returned so far

vars == <<df, call, rng, style, figs, pre, samples>>

----------------------------------------------------------------------------
\* Bounds of the model

MaxRows == 3
MaxN == 1
MaxFigs == 1
RngMod == 4

\* The missing value (NaN).  Every number of a table is positive.
NA == -1

Vals == {1, 2}
Cells == Vals \cup {NA}
ColNames == {"category", "value"}
SampleCols == {"category", "value", "count"}
\* Column names a caller passes; "count" is no column of a table of Tables,
\* "nosuch" is no column of any table.
ArgCols == {"category", "value", "count"}
ProcArgCols == {"category", "nosuch"}

----------------------------------------------------------------------------
\* Outcomes

Return(v) == [ok |-> TRUE, value |-> v]
Raise(kind, msg) == [ok |-> FALSE, error |-> kind, msg |-> msg]

----------------------------------------------------------------------------
\* Tables

RangeIndex(n) == [i \in 1..n |-> i - 1]

DataFrame(cols, rs) ==
    [columns |-> cols, index |-> RangeIndex(Len(rs)), rows |-> rs]

SeqsUpTo(S, n) == UNION {[1..k -> S] : k \in 0..n}

\* Every table of at most MaxRows rows over a subset of ColNames.  The table
\* without columns is pd.DataFrame(): it has no rows.
Tables ==
    {DataFrame({}, <<>>)} \cup
    UNION {{DataFrame(cols, rs) : rs \in SeqsUpTo([cols -> Cells], MaxRows)} :
              cols \in (SUBSET ColNames) \ {{}}}

RECURSIVE Positions(_, _)
\* The positions i, i+1, ... at which mask is TRUE, in increasing order.
Positions(mask, i) ==
    IF i > Len(mask) THEN <<>>
    ELSE (IF mask[i] THEN <<i>> ELSE <<>>) \o Positions(mask, i + 1)

\* df[mask]: boolean indexing keeps the rows at which mask is TRUE, with
\* their labels, in their order.
Take(t, mask) ==
    LET p == Positions(mask, 1) IN
    [columns |-> t.columns,
     index   |-> [k \in 1..Len(p) |-> t.index[p[k]]],
     rows    |-> [k \in 1..Len(p) |-> t.rows[p[k]]]]

\* pandas' isnull on a row: some cell is missing.
HasNA(r) == \E c \in DOMAIN r : r[c] = NA

\* DataFrame.duplicated(): a row is a duplicate when an earlier row has the
\* same cells (missing cells compare equal here).
\* duplicated() off by one: every row counts as a duplicate of itself.
duplicated_self(t) ==
    [i \in 1..Len(t.rows) |-> \E j \in 1..i : t.rows[j] = t.rows[i]]

duplicated(t) ==
    [i \in 1..Len(t.rows) |-> \E j \in 1..(i - 1) : t.rows[j] = t.rows[i]]

drop_duplicates(t) ==
    Take(t, [i \in 1..Len(t.rows) |-> ~duplicated(t)[i]])

dropna(t) ==
    Take(t, [i \in 1..Len(t.rows) |-> ~HasNA(t.rows[i])])

----------------------------------------------------------------------------
\* data_utils

\* The file system: what pd.read_csv finds at each path.
Paths == {"data.csv", "gone.csv", "bad.csv"}
Files ==
    [p \in Paths |->
        CASE p = "data.csv" ->
                 [kind |-> "csv",
                  table |-> DataFrame(ColNames,
                                <<[category |-> 1, value |-> 2],
                                  [category |-> 2, value |-> NA]>>)]
          [] p = "gone.csv" -> [kind |-> "absent"]
          [] p = "bad.csv"  -> [kind |-> "malformed"]]

read_csv(filepath) ==
    CASE Files[filepath].kind = "absent" ->
             Raise("FileNotFoundError", "No such file or directory")
      [] Files[filepath].kind = "malformed" ->
             Raise("ParserError", "Error tokenizing data")
      [] Files[filepath].kind = "csv" -> Return(Files[filepath].table)

load_data(filepath) ==
    LET data == read_csv(filepath) IN
    IF data.ok THEN data
    ELSE IF data.error = "FileNotFoundError"
         THEN Raise("FileNotFoundError", "File not found.")
    ELSE IF data.error = "ParserError"
         THEN Raise("ValueError", "Error parsing CSV file")
    ELSE data

\* clean_data without its drop_duplicates step.
clean_data_nodedup(t) == Return(dropna(t))

clean_data(t) ==
    LET df_clean == drop_duplicates(t) IN
    Return(dropna(df_clean))

\* The cells of column c, top to bottom.
Column(t, c) == [i \in 1..Len(t.rows) |-> t.rows[i][c]]

SkipNA(xs) == SelectSeq(xs, LAMBDA x : x # NA)

RECURSIVE SeqSum(_)
SeqSum(xs) == IF xs = <<>> THEN 0 ELSE Head(xs) + SeqSum(Tail(xs))

SeqMin(xs) == CHOOSE m \in {xs[i] : i \in 1..Len(xs)} :
                  \A i \in 1..Len(xs) : m <= xs[i]
SeqMax(xs) == CHOOSE m \in {xs[i] : i \in 1..Len(xs)} :
                  \A i \in 1..Len(xs) : m >= xs[i]

\* A mean is kept exact, as the fraction num/den.
Mean(xs) == [num |-> SeqSum(xs), den |-> Len(xs)]

\* pandas' reductions skip missing cells: the sum of nothing is 0, the
\* mean, min and max of nothing are missing.
agg(agg_func, xs) ==
    LET present == SkipNA(xs) IN
    CASE agg_func = "sum"   -> SeqSum(present)
      [] agg_func = "count" -> Len(present)
      [] agg_func = "mean"  -> IF present = <<>> THEN NA ELSE Mean(present)
      [] agg_func = "min"   -> IF present = <<>> THEN NA ELSE SeqMin(present)
      [] agg_func = "max"   -> IF present = <<>> THEN NA ELSE SeqMax(present)

\* df.dtypes: a column without rows is object, one with a missing cell is
\* float64, any other int64.
dtypes(t) ==
    [c \in t.columns |->
        IF t.rows = <<>> THEN "object"
        ELSE IF \E i \in 1..Len(t.rows) : t.rows[i][c] = NA THEN "float64"
        ELSE "int64"]

\* df.isnull().sum().sum(): the number of missing cells.
isnull_sum(t) ==
    SeqSum([i \in 1..Len(t.rows) |->
               Cardinality({c \in t.columns : t.rows[i][c] = NA})])

\* df.describe(): refuses a table without columns.  Of the statistics, count,
\* mean, min and max are modelled (std and the quartiles are not).
describe(t) ==
    IF t.columns = {}
    THEN Raise("ValueError", "Cannot describe a DataFrame without columns")
    ELSE Return([c \in t.columns |->
                    IF t.rows = <<>>
                    THEN [count |-> 0, unique |-> 0, top |-> NA, freq |-> NA]
                    ELSE [count |-> agg("count", Column(t, c)),
                          mean  |-> agg("mean", Column(t, c)),
                          min   |-> agg("min", Column(t, c)),
                          max   |-> agg("max", Column(t, c))]])

\* The dictionary's entries are evaluated in order; describe() is the last
\* and the only one that can raise.
summarize_data(t) ==
    LET numeric_stats == describe(t) IN
    IF ~numeric_stats.ok THEN numeric_stats
    ELSE Return([rows |-> Len(t.rows),
                 columns |-> Cardinality(t.columns),
                 missing_values |-> isnull_sum(t),
                 dtypes |-> dtypes(t),
                 numeric_stats |-> numeric_stats.value])

\* pandas' elementwise ==: a missing value equals nothing, itself included.
eq(a, b) == a # NA /\ b # NA /\ a = b

\* filter_data with the comparison inverted (!= for ==).
filter_data_ne(t, column, value) ==
    IF column \notin t.columns
    THEN Raise("ValueError", "Column not found in DataFrame.")
    ELSE Return(Take(t, [i \in 1..Len(t.rows) |-> ~eq(t.rows[i][column], value)]))

\* filter_data without its column check: df[column] raises KeyError.
filter_data_nocheck(t, column, value) ==
    IF column \notin t.columns
    THEN Raise("KeyError", column)
    ELSE Return(Take(t, [i \in 1..Len(t.rows) |-> eq(t.rows[i][column], value)]))

filter_data(t, column, value) ==
    IF column \notin t.columns
    THEN Raise("ValueError", "Column not found in DataFrame.")
    ELSE Return(Take(t, [i \in 1..Len(t.rows) |-> eq(t.rows[i][column], value)]))

valid_funcs == {"mean", "sum", "count", "min", "max"}

RECURSIVE SortedSeq(_)
SortedSeq(S) ==
    IF S = {} THEN <<>>
    ELSE LET m == CHOOSE x \in S : \A y \in S : x <= y
         IN <<m>> \o SortedSeq(S \ {m})

\* df.groupby(group_col)[agg_col].agg(agg_func): a Series indexed by the
\* group keys in increasing order.  A missing key forms no group (dropna=True
\* is groupby's default).  An unknown group_col or agg_col is a KeyError.
groupby_agg(t, group_col, agg_col, agg_func) ==
    IF group_col \notin t.columns THEN Raise("KeyError", group_col)
    ELSE IF agg_col \notin t.columns THEN Raise("KeyError", agg_col)
    ELSE LET keys == SortedSeq({t.rows[i][group_col] : i \in 1..Len(t.rows)} \ {NA})
             group(k) == Take(t, [i \in 1..Len(t.rows) |-> t.rows[i][group_col] = k])
         IN Return([index  |-> keys,
                    values |-> [j \in 1..Len(keys) |->
                                   agg(agg_func, Column(group(keys[j]), agg_col))]])

\* aggregate_data with the two columns swapped: it groups by agg_col.
aggregate_data_swapped(t, group_col, agg_col, agg_func) ==
    IF agg_func \notin valid_funcs
    THEN Raise("ValueError", "agg_func must be one of valid_funcs")
    ELSE groupby_agg(t, agg_col, group_col, agg_func)

\* aggregate_data that checks agg_func only after the columns are looked up.
aggregate_data_late(t, group_col, agg_col, agg_func) ==
    IF group_col \notin t.columns THEN Raise("KeyError", group_col)
    ELSE IF agg_col \notin t.columns THEN Raise("KeyError", agg_col)
    ELSE IF agg_func \notin valid_funcs
    THEN Raise("ValueError", "agg_func must be one of valid_funcs")
    ELSE groupby_agg(t, group_col, agg_col, agg_func)

aggregate_data(t, group_col, agg_col, agg_func) ==
    IF agg_func \notin valid_funcs
    THEN Raise("ValueError", "agg_func must be one of valid_funcs")
    ELSE groupby_agg(t, group_col, agg_col, agg_func)


\* numpy's global generator, as a congruential generator on 0..RngMod-1:
\* seed(s) sets the state, every draw reads it and steps it.
seed(s) == s % RngMod
next(st) == (st + 3) % RngMod

RECURSIVE stream(_, _)
\* The k states a run of k draws from state st reads.
stream(st, k) == IF k = 0 THEN <<>> ELSE <<st>> \o stream(next(st), k - 1)

RECURSIVE advance(_, _)
\* The state after k draws from state st.
advance(st, k) == IF k = 0 THEN st ELSE advance(next(st), k - 1)

\* 'A', 'B', 'C', as their codes 1, 2, 3 (a cell is a number).
categories == <<1, 2, 3>>
\* One draw of np.random.choice(categories), np.random.normal(100, 15) and
\* np.random.randint(1, 100), each a function of the generator state.
choice(st) == categories[(st % Len(categories)) + 1]
normal(st) == 100 + 15 * ((st % 5) - 2)
randint(st) == 1 + (st % 99)

\* create_sample_data without np.random.seed(42): it draws from the state
\* the generator is in.
create_sample_data_noseed(st, n_rows) ==
    LET s1 == advance(st, n_rows)
        s2 == advance(s1, n_rows)
        category == stream(st, n_rows)
        value == stream(s1, n_rows)
        count == stream(s2, n_rows)
    IN [out |-> Return(DataFrame(SampleCols,
                   [i \in 1..n_rows |-> [category |-> choice(category[i]),
                                         value    |-> normal(value[i]),
                                         count    |-> randint(count[i])]])),
        rng |-> advance(s2, n_rows)]

\* create_sample_data called when the generator is in state st: the table
\* it returns and the state it leaves the generator in.
create_sample_data(st, n_rows) ==
    LET s0 == seed(42)
        s1 == advance(s0, n_rows)
        s2 == advance(s1, n_rows)
        category == stream(s0, n_rows)
        value == stream(s1, n_rows)
        count == stream(s2, n_rows)
    IN [out |-> Return(DataFrame(SampleCols,
                   [i \in 1..n_rows |-> [category |-> choice(category[i]),
                                         value    |-> normal(value[i]),
                                         count    |-> randint(count[i])]])),
        rng |-> advance(s2, n_rows)]

----------------------------------------------------------------------------
\* visualization

\* figsize in tenths of an inch: matplotlib's default is (6.4, 4.8).
DefaultStyle == [style |-> "default", figsize |-> <<64, 48>>]

\* setup_style that sets the style and forgets the figure size.
setup_style_nosize(stl) == [stl EXCEPT !.style = "darkgrid"]

setup_style(stl) == [style |-> "darkgrid", figsize |-> <<120, 60>>]

\* An optional column argument left out.
None == "None"

\* Each plot function returns the axes it drew on, or raises on a column
\* the table lacks before it opens a figure.  (What seaborn makes of the
\* data after the figure is open is not modelled.)
plot_distribution(t, column) ==
    IF column \notin t.columns
    THEN Raise("ValueError", "Column not found in DataFrame.")
    ELSE Return("Axes")

plot_scatter(t, x, y, hue) ==
    IF x \notin t.columns \/ y \notin t.columns
    THEN Raise("ValueError", "Column not found in DataFrame.")
    ELSE IF hue # None /\ hue \notin t.columns
    THEN Raise("ValueError", "Column not found in DataFrame.")
    ELSE Return("Axes")

plot_boxplot(t, x, y) ==
    IF x # None /\ x \notin t.columns
    THEN Raise("ValueError", "Column not found in DataFrame.")
    ELSE IF y # None /\ y \notin t.columns
    THEN Raise("ValueError", "Column not found in DataFrame.")
    ELSE Return("Axes")

plot_heatmap(t) == Return("Axes")

plot_categorical(t, column, orient) ==
    IF column \notin t.columns
    THEN Raise("ValueError", "Column not found in DataFrame.")
    ELSE Return("Axes")

----------------------------------------------------------------------------
\* State machine

Globals == [rng |-> rng, style |-> style, figs |-> figs]

NoCall == [op |-> "none"]
Call(op, args, out) == [op |-> op, args |-> args, out |-> out]

NoSamples == [n \in 0..MaxN |-> [calls |-> 0, tables |-> {}]]

Init ==
    /\ df \in Tables
    /\ call = NoCall
    /\ rng = seed(0)
    /\ style = DefaultStyle
    /\ figs = 0
    /\ pre = Globals
    /\ samples = NoSamples

InitProc ==
    /\ df = DataFrame({}, <<>>)
    /\ call = NoCall
    /\ rng \in 0..(RngMod - 1)
    /\ style = DefaultStyle
    /\ figs = 0
    /\ pre = Globals
    /\ samples = NoSamples

\* A call of data_utils that reads df and touches nothing else.
Pure(op, args, out) ==
    /\ call' = Call(op, args, out)
    /\ pre' = Globals
    /\ UNCHANGED <<df, rng, style, figs, samples>>

\* df = load_data(filepath)
LoadData(filepath) ==
    LET out == load_data(filepath) IN
    /\ call' = Call("load_data", <<filepath>>, out)
    /\ df' = IF out.ok THEN out.value ELSE df
    /\ pre' = Globals
    /\ UNCHANGED <<rng, style, figs, samples>>

CleanData == Pure("clean_data", <<>>, clean_data(df))

SummarizeData == Pure("summarize_data", <<>>, summarize_data(df))

FilterData(column, value) ==
    Pure("filter_data", <<column, value>>, filter_data(df, column, value))

AggregateData(group_col, agg_col, agg_func) ==
    Pure("aggregate_data", <<group_col, agg_col, agg_func>>,
         aggregate_data(df, group_col, agg_col, agg_func))

\* df = create_sample_data(n_rows)
CreateSampleData(n_rows) ==
    LET r == create_sample_data(rng, n_rows) IN
    /\ call' = Call("create_sample_data", <<n_rows>>, r.out)
    /\ df' = r.out.value
    /\ rng' = r.rng
    /\ pre' = Globals
    /\ samples' = [samples EXCEPT ![n_rows] =
                      [calls  |-> IF @.calls < 2 THEN @.calls + 1 ELSE 2,
                       tables |-> @.tables \cup {r.out.value}]]
    /\ UNCHANGED <<style, figs>>

SetupStyle ==
    /\ call' = Call("setup_style", <<>>, Return(None))
    /\ style' = setup_style(style)
    /\ pre' = Globals
    /\ UNCHANGED <<df, rng, figs, samples>>

\* A plot function: plt.subplots opens a figure once the columns are checked.
Plot(op, args, out) ==
    /\ figs < MaxFigs
    /\ call' = Call(op, args, out)
    /\ figs' = IF out.ok THEN figs + 1 ELSE figs
    /\ pre' = Globals
    /\ UNCHANGED <<df, rng, style, samples>>

PlotDistribution(column) ==
    Plot("plot_distribution", <<column>>, plot_distribution(df, column))

PlotScatter(x, y, hue) ==
    Plot("plot_scatter", <<x, y, hue>>, plot_scatter(df, x, y, hue))

PlotBoxplot(x, y) ==
    Plot("plot_boxplot", <<x, y>>, plot_boxplot(df, x, y))

PlotHeatmap == Plot("plot_heatmap", <<>>, plot_heatmap(df))

PlotCategorical(column, orient) ==
    Plot("plot_categorical", <<column, orient>>,
         plot_categorical(df, column, orient))

\* The caller's own code between the calls: a draw from the global
\* generator (np.random.rand()), closing the figures (plt.close('all')).
CallerDraw ==
    /\ call' = Call("caller_draw", <<>>, Return(None))
    /\ rng' = next(rng)
    /\ pre' = Globals
    /\ UNCHANGED <<df, style, figs, samples>>

CallerClose ==
    /\ figs > 0
    /\ call' = Call("caller_close", <<>>, Return(None))
    /\ figs' = 0
    /\ pre' = Globals
    /\ UNCHANGED <<df, rng, style, samples>>

AggFuncs == valid_funcs \cup {"median"}

\* data_utils applied once to the table drawn.
Next ==
    /\ call = NoCall
    /\ \/ \E filepath \in Paths : LoadData(filepath)
       \/ CleanData
       \/ SummarizeData
       \/ \E column \in ArgCols, value \in Cells : FilterData(column, value)
       \/ \E group_col \in ArgCols, agg_col \in ArgCols, agg_func \in AggFuncs :
              AggregateData(group_col, agg_col, agg_func)

Spec == Init /\ [][Next]_vars

ProcFuncs == {"sum", "median"}
OptCols == ProcArgCols \cup {None}

\* Any sequence of calls to both modules and of the caller's own steps.
NextProc ==
    \/ \E filepath \in Paths : LoadData(filepath)
    \/ CleanData
    \/ SummarizeData
    \/ \E column \in ProcArgCols, value \in {1, NA} : FilterData(column, value)
    \/ \E group_col \in ProcArgCols, agg_func \in ProcFuncs :
           AggregateData(group_col, "value", agg_func)
    \/ \E n_rows \in 0..MaxN : CreateSampleData(n_rows)
    \/ SetupStyle
    \/ \E column \in ProcArgCols : PlotDistribution(column)
    \/ \E hue \in OptCols : PlotScatter("category", "value", hue)
    \/ \E x \in OptCols : PlotBoxplot(x, "value")
    \/ PlotHeatmap
    \/ \E orient \in {"v", "h"} : PlotCategorical("category", orient)
    \/ CallerDraw
    \/ CallerClose

SpecProc == InitProc /\ [][NextProc]_vars

----------------------------------------------------------------------------
\* Properties

Pos(t) == 1..Len(t.rows)
RowSet(t) == {t.rows[i] : i \in Pos(t)}
NoDuplicates(t) == \A i, j \in Pos(t) : i # j => t.rows[i] # t.rows[j]
NoMissing(t) == \A i \in Pos(t) : ~HasNA(t.rows[i])

\* C1: clean_data(t) holds exactly the rows of t without a missing value,
\* each distinct one once: no row of the result has a missing value, no two
\* rows of the result are equal, every row of the result is a row of t, and
\* every row of t without a missing value is in the result.
C1_CleanExactRows ==
    call.op = "clean_data" =>
        /\ call.out.ok
        /\ call.out.value.columns = df.columns
        /\ NoMissing(call.out.value)
        /\ NoDuplicates(call.out.value)
        /\ RowSet(call.out.value) \subseteq RowSet(df)
        /\ \A r \in RowSet(df) : ~HasNA(r) => r \in RowSet(call.out.value)

\* clean_data has acted on a table of three rows: a row with a missing value
\* and a row that occurs twice, of which one copy is left.
C1_Witness ==
    /\ call.op = "clean_data"
    /\ Len(df.rows) = 3
    /\ ~NoMissing(df)
    /\ \E i, j \in Pos(df) : i # j /\ df.rows[i] = df.rows[j] /\ ~HasNA(df.rows[i])
    /\ Len(call.out.value.rows) = 1

\* C2: clean_data is idempotent: cleaning its result returns that result,
\* and a table without duplicate rows and without missing values is returned
\* as it is (same rows, same labels, same order).
C2_CleanIdempotent ==
    call.op = "clean_data" =>
        /\ clean_data(call.out.value) = call.out
        /\ (NoDuplicates(df) /\ NoMissing(df)) => call.out.value = df

\* clean_data has acted on a table of three rows that has no duplicate row
\* and no missing value, and has returned all three.
C2_Witness ==
    /\ call.op = "clean_data"
    /\ Len(df.rows) = 3
    /\ NoDuplicates(df) /\ NoMissing(df)
    /\ call.out.value = df

\* The rows of r are exactly the rows of t at the positions P, with their
\* labels, in the order they have in t.
ExactlyRowsAt(r, t, P) ==
    /\ r.columns = t.columns
    /\ Len(r.rows) = Cardinality(P)
    /\ Len(r.index) = Len(r.rows)
    /\ \A k \in Pos(r) :
          \E i \in P : r.index[k] = t.index[i] /\ r.rows[k] = t.rows[i]
    /\ \A k, l \in Pos(r) : k < l => r.index[k] < r.index[l]

\* C3 as stated: for every value v, a missing one included, the result of
\* filter_data(t, c, v) on a column c of t is exactly the rows of t whose
\* cell in c is v, in the order they have in t.
C3_FilterEveryValue ==
    (call.op = "filter_data" /\ call.args[1] \in df.columns) =>
        /\ call.out.ok
        /\ ExactlyRowsAt(call.out.value, df,
               {i \in Pos(df) : df.rows[i][call.args[1]] = call.args[2]})

\* C3, amended: for every value v that is not missing, the result of
\* filter_data(t, c, v) on a column c of t is exactly the rows of t whose
\* cell in c is v, in the order they have in t; for a missing v the result
\* has no rows.
C3_FilterPresentValue ==
    (call.op = "filter_data" /\ call.args[1] \in df.columns) =>
        /\ call.out.ok
        /\ ExactlyRowsAt(call.out.value, df,
               IF call.args[2] = NA THEN {}
               ELSE {i \in Pos(df) : df.rows[i][call.args[1]] = call.args[2]})

\* filter_data has kept the second and third of three rows and dropped the
\* first.
C3_Witness ==
    /\ call.op = "filter_data"
    /\ call.args[1] \in df.columns
    /\ call.args[2] # NA
    /\ Len(df.rows) = 3
    /\ call.out.ok
    /\ call.out.value.index = <<1, 2>>

\* C4: filter_data on a column name that is no column of the table raises
\* ValueError, whatever the value, and returns no table.
C4_FilterMissingColumn ==
    (call.op = "filter_data" /\ call.args[1] \notin df.columns) =>
        /\ ~call.out.ok
        /\ call.out.error = "ValueError"

\* filter_data has been called on a table with rows for a column the table
\* lacks, while the table has another column.
C4_Witness ==
    /\ call.op = "filter_data"
    /\ call.args[1] \notin df.columns
    /\ df.columns # {}
    /\ Len(df.rows) > 0
    /\ ~call.out.ok

RECURSIVE SumAt(_, _, _)
\* The total of column c of t over the positions P, a missing cell
\* counting nothing.
SumAt(t, c, P) ==
    IF P = {} THEN 0
    ELSE LET i == CHOOSE x \in P : TRUE
         IN (IF t.rows[i][c] = NA THEN 0 ELSE t.rows[i][c]) + SumAt(t, c, P \ {i})

\* The Series s has one entry for each key of K and no other, and the entry
\* for a key is the total of agg_col over the rows of t with that key.
TotalsPerKey(s, t, group_col, agg_col, K) ==
    /\ Len(s.index) = Len(s.values)
    /\ {s.index[j] : j \in 1..Len(s.index)} = K
    /\ Len(s.index) = Cardinality(K)
    /\ \A j \in 1..Len(s.index) :
          s.values[j] = SumAt(t, agg_col,
                              {i \in Pos(t) : t.rows[i][group_col] = s.index[j]})

\* C5 as stated: aggregate_data(t, group_col, agg_col, 'sum') on two columns
\* of t has one entry per distinct value of group_col occurring in t, a
\* missing one included, and the entry for g is the total of agg_col over
\* exactly the rows whose group_col is g.
C5_SumEveryGroup ==
    (/\ call.op = "aggregate_data"
     /\ call.args[3] = "sum"
     /\ call.args[1] \in df.columns
     /\ call.args[2] \in df.columns) =>
        /\ call.out.ok
        /\ TotalsPerKey(call.out.value, df, call.args[1], call.args[2],
                        {df.rows[i][call.args[1]] : i \in Pos(df)})

\* C5, amended: aggregate_data(t, group_col, agg_col, 'sum') on two columns
\* of t has one entry per distinct value of group_col occurring in t that is
\* not missing (the rows whose group_col is missing are in no entry), and
\* the entry for g is the total of the agg_col cells that are not missing
\* over exactly the rows whose group_col is g.
C5_SumPresentGroups ==
    (/\ call.op = "aggregate_data"
     /\ call.args[3] = "sum"
     /\ call.args[1] \in df.columns
     /\ call.args[2] \in df.columns) =>
        /\ call.out.ok
        /\ TotalsPerKey(call.out.value, df, call.args[1], call.args[2],
                        {df.rows[i][call.args[1]] : i \in Pos(df)} \ {NA})

\* aggregate_data has summed the two rows of one group into 3, on a table
\* that also has a row whose group_col is missing.
C5_Witness ==
    /\ call.op = "aggregate_data"
    /\ call.args = <<"category", "value", "sum">>
    /\ df.columns = ColNames
    /\ \E i \in Pos(df) : df.rows[i].category = NA /\ df.rows[i].value # NA
    /\ call.out.ok
    /\ call.out.value.index = <<1>>
    /\ call.out.value.values = <<3>>

\* C6: for an agg_func outside mean, sum, count, min, max, aggregate_data
\* raises ValueError whatever the table and the column names, so before any
\* column is looked up; for an agg_func inside, that check does not raise.
C6_AggFuncChecked ==
    call.op = "aggregate_data" =>
        /\ call.args[3] \notin {"mean", "sum", "count", "min", "max"} =>
               (~call.out.ok /\ call.out.error = "ValueError")
        /\ call.args[3] \in {"mean", "sum", "count", "min", "max"} =>
               (call.out.ok \/ call.out.msg # "agg_func must be one of valid_funcs")

\* aggregate_data has been called with an unsupported agg_func and two
\* column names the table lacks.
C6_Witness ==
    /\ call.op = "aggregate_data"
    /\ call.args[3] = "median"
    /\ call.args[1] \notin df.columns
    /\ call.args[2] \notin df.columns
    /\ ~call.out.ok

\* C7: on every table without rows, the table without columns included,
\* summarize_data returns a mapping whose 'rows' entry is 0 and does not
\* end in an error.
C7_SummarizeEmpty ==
    (call.op = "summarize_data" /\ Len(df.rows) = 0) =>
        /\ call.out.ok
        /\ call.out.value.rows = 0

\* C9: a call of data_utils that fails raises FileNotFoundError or
\* ValueError, nothing else; aggregate_data with a supported agg_func and a
\* group_col or agg_col the table lacks raises ValueError.
C9_TwoErrorKinds ==
    /\ (call.op # "none" /\ ~call.out.ok) =>
           call.out.error \in {"FileNotFoundError", "ValueError"}
    /\ (/\ call.op = "aggregate_data"
        /\ call.args[3] \in valid_funcs
        /\ (call.args[1] \notin df.columns \/ call.args[2] \notin df.columns)) =>
           (~call.out.ok /\ call.out.error = "ValueError")

\* C8: any two calls create_sample_data(n_rows) with the same n_rows return
\* equal tables, whatever the caller drew from the generator, and whatever
\* else was called, before or between them: all the tables returned so far
\* for one n_rows are one table, the one just returned included.
C8_SampleDeterministic ==
    /\ \A n \in DOMAIN samples : Cardinality(samples[n].tables) <= 1
    /\ call.op = "create_sample_data" =>
           samples[call.args[1]].tables = {call.out.value}

\* create_sample_data has been called for the second time at least with one
\* n_rows > 0, this time from a generator state other than the one the
\* call before it left: the caller, or a call with another n_rows, has used
\* the generator in between.
C8_Witness ==
    /\ call.op = "create_sample_data"
    /\ call.args[1] > 0
    /\ samples[call.args[1]].calls = 2
    /\ pre.rng # advance(seed(42), 3 * call.args[1])
    /\ Len(call.out.value.rows) = call.args[1]

DataOps == {"load_data", "clean_data", "summarize_data", "filter_data",
            "aggregate_data"}
PlotOps == {"plot_distribution", "plot_scatter", "plot_boxplot",
            "plot_heatmap", "plot_categorical"}

\* C10 as stated: a call to an operation of either module leaves the state
\* of the process (the global generator, the plotting configuration, the
\* figures) as it was before the call.
C10_NoGlobalChange ==
    call.op \in DataOps \cup PlotOps \cup {"create_sample_data", "setup_style"} =>
        Globals = pre

\* C10, amended: load_data, clean_data, summarize_data, filter_data and
\* aggregate_data leave the state of the process as it was.
\* create_sample_data leaves the plotting state as it was and sets the
\* global generator: to the state that seed 42 and the 3 * n_rows draws of
\* the call lead to, whatever it was before.  setup_style leaves the
\* generator and the figures as they were and sets the plotting
\* configuration to darkgrid and 12 by 6.  A plot function leaves the
\* generator and the configuration as they were, and opens one figure
\* unless it raises on a missing column.
C10_GlobalEffects ==
    /\ call.op \in DataOps => Globals = pre
    /\ call.op = "create_sample_data" =>
           /\ rng = advance(seed(42), 3 * call.args[1])
           /\ style = pre.style /\ figs = pre.figs
    /\ call.op = "setup_style" =>
           /\ style = [style |-> "darkgrid", figsize |-> <<120, 60>>]
           /\ rng = pre.rng /\ figs = pre.figs
    /\ call.op \in PlotOps =>
           /\ rng = pre.rng /\ style = pre.style
           /\ figs = pre.figs + (IF call.out.ok THEN 1 ELSE 0)

\* create_sample_data has returned a table with rows and has left the
\* global generator in another state than the caller had it in, after
\* setup_style had changed the plotting configuration.
C10_Witness ==
    /\ call.op = "create_sample_data"
    /\ call.args[1] > 0
    /\ rng # pre.rng
    /\ style # DefaultStyle

====
